---- MODULE Spec2Model ----
(***************************************************************************)
(* Model of the money-mule forensic backend (src/backend/main.py).         *)
(*                                                                         *)
(* One upload request is followed from the uploaded table (df, columns)    *)
(* through upload_file's column check, build_graph, detect_cycles,         *)
(* detect_high_velocity, the scoring loop and the ring summary of          *)
(* perform_analysis, to the response.                                      *)
(*                                                                         *)
(* Accounts are numbers (account i stands for "ACC_00i" of                 *)
(* generate_data.py).  A timestamp is the pair <<hour, minute>> of a       *)
(* same-day time text; pd.to_datetime turns it into minutes, or fails.     *)
(* networkx is a library: nx.DiGraph is modelled by its documented         *)
(* behaviour (one edge per ordered pair, attributes of the last add_edge   *)
(* win, insertion-ordered nodes and adjacency).                            *)
(***************************************************************************)
EXTENDS Integers, Sequences, FiniteSets, TLC

VARIABLES
    columns,            \* header of the uploaded CSV (set of column names)
    df,                 \* rows of the uploaded CSV, each a function on columns
    pc,                 \* position of the request in upload_file / perform_analysis
    G,                  \* the nx.DiGraph built by build_graph
    cycles,             \* suspicious_cycles returned by detect_cycles
    node_to_ring,       \* node -> ring id mapping returned by detect_cycles
    high_velocity_set,  \* set returned by detect_high_velocity
    node_list,          \* per-account records built by the scoring loop
    response            \* what the endpoint returns

vars == <<columns, df, pc, G, cycles, node_to_ring, high_velocity_set, node_list, response>>

-----------------------------------------------------------------------------
(* Bounds of the input space *)

MaxTx == 2          \* rows of a general batch
MaxFan == 11        \* transfers of a fan-in pattern into one hub
MaxBackground == 1  \* general rows in front of a fan-in pattern

(* Program constants *)

WindowMinutes == 15
SmurfThreshold == 5
SmurfStep == 5
SmurfCap == 30
CycleWeight == 50
VelocityWeight == 20
ScoreCap == 100
SummaryThreshold == 20
RedAbove == 70
OrangeAbove == 40

-----------------------------------------------------------------------------
(* Generic helpers *)

Range(s) == {s[i] : i \in DOMAIN s}

Min(a, b) == IF a <= b THEN a ELSE b

Max(a, b) == IF a >= b THEN a ELSE b

Contains(s, x) == \E i \in DOMAIN s : s[i] = x

RECURSIVE SumSeq(_)
SumSeq(s) == IF s = <<>> THEN 0 ELSE Head(s) + SumSeq(Tail(s))

RECURSIVE Concat(_)
Concat(ss) == IF ss = <<>> THEN <<>> ELSE Head(ss) \o Concat(Tail(ss))

RECURSIVE Orderings(_)
Orderings(S) ==
    IF S = {} THEN {<<>>}
    ELSE UNION {{<<x>> \o rest : rest \in Orderings(S \ {x})} : x \in S}

RECURSIVE SetToSeq(_)
SetToSeq(S) ==
    IF S = {} THEN <<>>
    ELSE LET x == CHOOSE y \in S : TRUE IN <<x>> \o SetToSeq(S \ {x})

-----------------------------------------------------------------------------
(* The uploaded table *)

AllColumns == {"transaction_id", "sender_id", "receiver_id", "amount", "timestamp"}

\* pd.to_datetime on one timestamp text: the instant in minutes, or -1 when
\* the text is no valid time (the call then raises for the whole column).
ParseTimestamp(ts) ==
    IF ts[1] \in 0..23 /\ ts[2] \in 0..59 THEN 60 * ts[1] + ts[2] ELSE -1

\* df['timestamp'] = pd.to_datetime(df['timestamp'])
to_datetime(rows) == [i \in DOMAIN rows |-> ParseTimestamp(rows[i].timestamp)]

-----------------------------------------------------------------------------
(* STEP 1: build_graph *)

EmptyGraph == [nodes |-> <<>>, succ |-> <<>>, data |-> <<>>]

\* G.add_edge(u, v, amount=..., timestamp=..., transaction_id=...) on a DiGraph:
\* both endpoints become nodes (u first), v is appended to u's adjacency unless
\* the edge exists, and the edge's attributes are overwritten.
add_edge(g, row) ==
    LET u == row.sender_id
        v == row.receiver_id
        n1 == IF Contains(g.nodes, u) THEN g.nodes ELSE Append(g.nodes, u)
        n2 == IF Contains(n1, v) THEN n1 ELSE Append(n1, v)
        old(n) == IF n \in DOMAIN g.succ THEN g.succ[n] ELSE <<>>
        attrs == [amount |-> row.amount,
                  timestamp |-> row.timestamp,
                  transaction_id |-> row.transaction_id]
    IN  [nodes |-> n2,
         succ |-> [n \in Range(n2) |->
                     IF n = u /\ ~Contains(old(u), v) THEN Append(old(u), v) ELSE old(n)],
         data |-> (<<u, v>> :> attrs) @@ g.data]

RECURSIVE build_graph_from(_, _)
build_graph_from(g, rows) ==
    IF rows = <<>> THEN g ELSE build_graph_from(add_edge(g, Head(rows)), Tail(rows))

build_graph(rows) == build_graph_from(EmptyGraph, rows)

\* row['transaction_id'] (and the other lookups of the loop body) raise
\* KeyError on the first row when the column is absent.
build_graph_raises(rows, cols) ==
    /\ rows # <<>>
    /\ ~({"sender_id", "receiver_id", "amount", "timestamp", "transaction_id"} \subseteq cols)

Nodes(g) == Range(g.nodes)

has_edge(g, u, v) == <<u, v>> \in DOMAIN g.data

\* G.in_degree(account): number of edges of the DiGraph that end in account
in_degree(g, account) == Cardinality({e \in DOMAIN g.data : e[2] = account})

\* G.edges(data=True): nodes in insertion order, each with its adjacency in
\* insertion order
edges_of(g) ==
    Concat([i \in DOMAIN g.nodes |->
              [j \in DOMAIN g.succ[g.nodes[i]] |-> <<g.nodes[i], g.succ[g.nodes[i]][j]>>]])

-----------------------------------------------------------------------------
(* STEP 2: detection algorithms *)

\* nodes reachable from the set S along edges of g that stay inside `within`
RECURSIVE ReachClose(_, _, _)
ReachClose(g, within, S) ==
    LET next == S \cup {v \in within : \E u \in S : Contains(g.succ[u], v)}
    IN  IF next = S THEN S ELSE ReachClose(g, within, next)

Reach(g, a) == ReachClose(g, Nodes(g), {a})

\* variant: the nodes a is reachable from, whether or not a reaches them
SccOf_backward(g, a) == {b \in Nodes(g) : a \in Reach(g, b)}

\* nx.strongly_connected_components(G): the maximal sets of mutually reachable nodes
SccOf(g, a) == {b \in Reach(g, a) : a \in Reach(g, b)}

strongly_connected_components(g) == {SccOf(g, a) : a \in Nodes(g)}

\* nx.find_cycle(G.subgraph(component)) raises NetworkXNoCycle when the
\* subgraph induced by the component holds no directed cycle
find_cycle_raises(g, component) ==
    ~ \E u \in component : \E v \in component :
          /\ Contains(g.succ[u], v)
          /\ u \in ReachClose(g, component, {v})

DigitChars == <<"0", "1", "2", "3", "4", "5", "6", "7", "8", "9">>

RECURSIVE Digits(_)
Digits(n) == IF n < 10 THEN <<DigitChars[n + 1]>>
             ELSE Append(Digits(n \div 10), DigitChars[(n % 10) + 1])

\* f"{n:03d}": decimal digits, zero-padded on the left to a width of at least 3
Pad03(n) ==
    LET d == Digits(n)
    IN  IF Len(d) >= 3 THEN d ELSE [i \in 1..(3 - Len(d)) |-> "0"] \o d

\* f"RING_{ring_counter:03d}"
RingId(ring_counter) == <<"RING_">> \o Pad03(ring_counter)

\* the default of node_to_ring.get(account, "N/A")
NoRing == <<"N/A">>

\* variant: the counter is not advanced
next_ring_counter_stuck(ring_counter) == ring_counter

\* ring_counter += 1
next_ring_counter(ring_counter) == ring_counter + 1

\* One pass of the loop body of detect_cycles over one component.
\* st = [ring_counter, suspicious_cycles, node_to_ring]
detect_cycles_step(g, st, component) ==
    IF Cardinality(component) > 1 THEN
        LET ring_id == RingId(st.ring_counter)
            cycle_nodes == SetToSeq(component)
        IN  IF find_cycle_raises(g, component)
            THEN [st EXCEPT !.ring_counter = next_ring_counter(@)]
            ELSE [ring_counter |-> next_ring_counter(st.ring_counter),
                  suspicious_cycles |->
                      Append(st.suspicious_cycles, [ring_id |-> ring_id, nodes |-> cycle_nodes]),
                  node_to_ring |-> [n \in component |-> ring_id] @@ st.node_to_ring]
    ELSE IF Cardinality(component) = 1 THEN
        LET node == CHOOSE n \in component : TRUE
        IN  IF has_edge(g, node, node)
            THEN LET ring_id == RingId(st.ring_counter)
                 IN  [ring_counter |-> next_ring_counter(st.ring_counter),
                      suspicious_cycles |->
                          Append(st.suspicious_cycles, [ring_id |-> ring_id, nodes |-> <<node>>]),
                      node_to_ring |-> (node :> ring_id) @@ st.node_to_ring]
            ELSE st
    ELSE st

RECURSIVE detect_cycles_loop(_, _, _)
detect_cycles_loop(g, st, sccs) ==
    IF sccs = <<>> THEN st
    ELSE detect_cycles_loop(g, detect_cycles_step(g, st, Head(sccs)), Tail(sccs))

\* detect_cycles(G) for one order in which the library yields the components
detect_cycles(g, sccs) ==
    detect_cycles_loop(g, [ring_counter |-> 1, suspicious_cycles |-> <<>>, node_to_ring |-> <<>>], sccs)

\* The orders in which the components can be yielded.  A component of one
\* node without a self-loop leaves the loop's state alone wherever it comes,
\* so those are listed last, in one order.
Inert(g, c) == Cardinality(c) = 1 /\ \A n \in c : ~has_edge(g, n, n)

SccOrders(g) ==
    LET all == strongly_connected_components(g)
        inert == {c \in all : Inert(g, c)}
    IN  {o \o SetToSeq(inert) : o \in Orderings(all \ inert)}

\* variant: the end of the window is excluded
within_window_strict(in_time, out_time) ==
    in_time <= out_time /\ out_time < in_time + WindowMinutes

\* variant: the outgoing transfer has to come strictly after the incoming one
within_window_after(in_time, out_time) ==
    in_time < out_time /\ out_time <= in_time + WindowMinutes

\* variant: the window is opened at the outgoing transfer
within_window_swapped(in_time, out_time) ==
    out_time <= in_time /\ in_time <= out_time + WindowMinutes

\* window_end = in_time + timedelta(minutes=15); in_time <= out_time <= window_end
within_window(in_time, out_time) ==
    in_time <= out_time /\ out_time <= in_time + WindowMinutes

\* detect_high_velocity(G, df)
detect_high_velocity(g, rows) ==
    LET t == to_datetime(rows)
        incoming_times(account) == {i \in DOMAIN rows : rows[i].receiver_id = account}
        outgoing_times(account) == {i \in DOMAIN rows : rows[i].sender_id = account}
    IN  IF \E i \in DOMAIN rows : t[i] < 0 THEN {}
        ELSE {account \in Nodes(g) :
                \E i \in incoming_times(account) : \E o \in outgoing_times(account) :
                    within_window(t[i], t[o])}

\* variant: the velocity weight is subtracted
calculate_suspicion_score_signslip(account, g, is_in_cycle, is_high_velocity) ==
    LET s1 == IF is_in_cycle THEN CycleWeight ELSE 0
        deg == in_degree(g, account)
        s2 == IF deg > SmurfThreshold
              THEN s1 + Min((deg - SmurfThreshold) * SmurfStep, SmurfCap)
              ELSE s1
        s3 == IF is_high_velocity THEN s2 - VelocityWeight ELSE s2
    IN  Min(s3, ScoreCap)

\* calculate_suspicion_score(account, G, is_in_cycle, is_high_velocity)
calculate_suspicion_score(account, g, is_in_cycle, is_high_velocity) ==
    LET s1 == IF is_in_cycle THEN CycleWeight ELSE 0
        deg == in_degree(g, account)
        s2 == IF deg > SmurfThreshold
              THEN s1 + Min((deg - SmurfThreshold) * SmurfStep, SmurfCap)
              ELSE s1
        s3 == IF is_high_velocity THEN s2 + VelocityWeight ELSE s2
    IN  Min(s3, ScoreCap)

-----------------------------------------------------------------------------
(* STEP 3: perform_analysis *)

\* variant: the smurfing label is given from the threshold on
patterns_of_atleast(account, g, is_in_cycle, is_hv) ==
    (IF is_in_cycle THEN <<"cycle">> ELSE <<>>)
    \o (IF in_degree(g, account) >= SmurfThreshold THEN <<"smurfing">> ELSE <<>>)
    \o (IF is_hv THEN <<"layering">> ELSE <<>>)

\* the pattern labels of one account, in the order they are appended
patterns_of(account, g, is_in_cycle, is_hv) ==
    (IF is_in_cycle THEN <<"cycle">> ELSE <<>>)
    \o (IF in_degree(g, account) > SmurfThreshold THEN <<"smurfing">> ELSE <<>>)
    \o (IF is_hv THEN <<"layering">> ELSE <<>>)

\* the record appended to node_list for one account; val is kept in eighths
\* (max(score / 8, 1.5) = val / 8)
node_record(account, g, ring_of, hv_set) ==
    LET is_in_cycle == account \in DOMAIN ring_of
        is_hv == account \in hv_set
        score == calculate_suspicion_score(account, g, is_in_cycle, is_hv)
        patterns == patterns_of(account, g, is_in_cycle, is_hv)
    IN  [id |-> account,
         suspicion_score |-> score,
         risk_score |-> score,
         flags |-> patterns,
         patterns |-> patterns,
         ring_id |-> IF account \in DOMAIN ring_of THEN ring_of[account] ELSE NoRing,
         val |-> Max(score, 12),
         color |-> IF score > RedAbove THEN "#ef4444"
                   ELSE IF score > OrangeAbove THEN "#f97316" ELSE "#3b82f6"]

\* the scoring loop over list(G.nodes())
score_accounts(g, ring_of, hv_set) ==
    [i \in DOMAIN g.nodes |-> node_record(g.nodes[i], g, ring_of, hv_set)]

\* round(num / den, 2) in hundredths, ties to even
Round2(num, den) ==
    LET q == (100 * num) \div den
        r == (100 * num) % den
    IN  IF 2 * r > den THEN q + 1
        ELSE IF 2 * r < den THEN q
        ELSE IF q % 2 = 0 THEN q ELSE q + 1

\* variant: layering is looked for first
pattern_type_of_layering_first(patterns_in_ring) ==
    IF Contains(patterns_in_ring, "layering") THEN "layering"
    ELSE IF Contains(patterns_in_ring, "smurfing") /\ Contains(patterns_in_ring, "cycle")
    THEN "hybrid"
    ELSE "cycle"

\* the pattern_type decision over patterns_in_ring
pattern_type_of(patterns_in_ring) ==
    IF Contains(patterns_in_ring, "smurfing") /\ Contains(patterns_in_ring, "cycle")
    THEN "hybrid"
    ELSE IF Contains(patterns_in_ring, "layering") THEN "layering"
    ELSE "cycle"

\* one record of fraud_rings; risk_score is kept in hundredths
ring_record(cycle_info, nl) ==
    LET ring_members == cycle_info.nodes
        member(i) == Contains(ring_members, nl[i].id)
        ring_scores == SelectSeq([i \in DOMAIN nl |-> IF member(i) THEN nl[i].suspicion_score ELSE -1],
                                 LAMBDA x : x >= 0)
        avg_risk == IF ring_scores # <<>> THEN Round2(SumSeq(ring_scores), Len(ring_scores)) ELSE 0
        patterns_in_ring == Concat([i \in DOMAIN nl |-> IF member(i) THEN nl[i].patterns ELSE <<>>])
    IN  [ring_id |-> cycle_info.ring_id,
         member_accounts |-> ring_members,
         pattern_type |-> pattern_type_of(patterns_in_ring),
         risk_score |-> avg_risk]

\* the links loop over G.edges(data=True)
link_list_of(g) ==
    LET es == edges_of(g)
    IN  [i \in DOMAIN es |->
           [source |-> es[i][1], target |-> es[i][2], amount |-> g.data[es[i]].amount]]

\* sorted(..., key=suspicion_score, reverse=True): stable, descending
RECURSIVE InsertDesc(_, _)
InsertDesc(sorted, n) ==
    IF sorted = <<>> THEN <<n>>
    ELSE IF Head(sorted).suspicion_score >= n.suspicion_score
         THEN <<Head(sorted)>> \o InsertDesc(Tail(sorted), n)
         ELSE <<n>> \o sorted

RECURSIVE SortDesc(_)
SortDesc(s) == IF s = <<>> THEN <<>> ELSE InsertDesc(SortDesc(SubSeq(s, 1, Len(s) - 1)), s[Len(s)])

\* the dictionary returned by perform_analysis (processing time left out)
analysis_result(g, cyc, nl) ==
    LET flagged == SelectSeq(nl, LAMBDA n : n.suspicion_score > SummaryThreshold)
        fraud_rings == [i \in DOMAIN cyc |-> ring_record(cyc[i], nl)]
    IN  [nodes |-> nl,
         links |-> link_list_of(g),
         fraud_rings |-> fraud_rings,
         risk_summary |-> SortDesc(flagged),
         summary |-> [total_accounts_analyzed |-> Len(g.nodes),
                      suspicious_accounts_flagged |-> Len(flagged),
                      fraud_rings_detected |-> Len(fraud_rings)]]

-----------------------------------------------------------------------------
(* Input space: the uploads the request is checked on *)

CoreAccounts == {1, 2, 3}

\* same-day time texts 00:50, 01:05, 01:06 (15 and 16 minutes after the
\* first), and "00:60", which pd.to_datetime refuses
Times == {<<0, 50>>, <<1, 5>>, <<1, 6>>, <<0, 60>>}

RowsOver(accounts, amounts, times) ==
    [sender_id : accounts, receiver_id : accounts, amount : amounts, timestamp : times]

\* a CSV with header cols whose i-th row has transaction_id i
Table(bodies, cols) ==
    [i \in DOMAIN bodies |->
       [c \in cols |->
          CASE c = "transaction_id" -> i
            [] c = "sender_id" -> bodies[i].sender_id
            [] c = "receiver_id" -> bodies[i].receiver_id
            [] c = "amount" -> bodies[i].amount
            [] c = "timestamp" -> bodies[i].timestamp]]

\* the time text d minutes after ts
AddMinutes(ts, d) == <<ts[1] + ((ts[2] + d) \div 60), (ts[2] + d) % 60>>

\* any rows among three accounts, one amount
GeneralRows == RowsOver(CoreAccounts, {5000}, Times)

\* rows between two accounts with two amounts at one time, under any header
HeaderRows == RowsOver({1, 2}, {100, 5000}, {<<1, 0>>})

\* generate_fraud_data, "3. Inject Cycle": random.sample(accounts, 3), the
\* transfers u -> v along the closed path, cycle_amount each, i * 5 minutes
\* after cycle_time
CycleNodes == {n \in [1..3 -> CoreAccounts] : \A i, j \in 1..3 : i # j => n[i] # n[j]}

InjectCycle(cycle_nodes, cycle_time) ==
    [i \in 1..3 |->
       [sender_id |-> cycle_nodes[i],
        receiver_id |-> cycle_nodes[(i % 3) + 1],
        amount |-> 5000,
        timestamp |-> AddMinutes(cycle_time, (i - 1) * 5)]]

Cycles == {InjectCycle(n, t) : n \in CycleNodes, t \in {<<0, 50>>, <<0, 55>>}}

Reordered(rows) == {[i \in DOMAIN rows |-> rows[o[i]]] : o \in Orderings(DOMAIN rows)}

\* the injected cycle alone in any row order, or next to background rows
AroundCycle(c, bg) == IF bg = <<>> THEN Reordered(c) ELSE {bg \o c, c \o bg}

\* generate_fraud_data, "2. Inject Smurfing Pattern": k transfers into the
\* mule (account 1), from k distinct smurf accounts or all from one
InjectFan(k, distinct) ==
    [i \in 1..k |->
       [sender_id |-> IF distinct THEN 100 + i ELSE 101,
        receiver_id |-> 1,
        amount |-> 950,
        timestamp |-> <<0, 50>>]]

-----------------------------------------------------------------------------
(* The request *)

NoResponse == [kind |-> "none"]

\* the request for the upload of the rows `bodies` under the header cols,
\* before upload_file looks at it
Received(bodies, cols) ==
    /\ columns = cols
    /\ df = Table(bodies, cols)
    /\ pc = "received"
    /\ G = EmptyGraph
    /\ cycles = <<>>
    /\ node_to_ring = <<>>
    /\ high_velocity_set = {}
    /\ node_list = <<>>
    /\ response = NoResponse

InitGeneral ==
    \E k \in 0..MaxTx : \E b \in [1..k -> GeneralRows] : Received(b, AllColumns)

InitHeader ==
    \E k \in 0..MaxTx : \E b \in [1..k -> HeaderRows] : \E cols \in SUBSET AllColumns :
        Received(b, cols)

InitCycle ==
    \E c \in Cycles : \E k \in 0..MaxBackground : \E bg \in [1..k -> GeneralRows] :
        \E b \in AroundCycle(c, bg) : Received(b, AllColumns)

InitFan ==
    \E n \in 1..MaxFan : \E distinct \in BOOLEAN :
        \E k \in 0..MaxBackground : \E bg \in [1..k -> GeneralRows] :
            Received(bg \o InjectFan(n, distinct), AllColumns)

Init == InitGeneral \/ InitHeader \/ InitCycle \/ InitFan

\* upload_file: the required-columns check (the CSV is already parsed into df)
UploadFile ==
    /\ pc = "received"
    /\ IF ~({"sender_id", "receiver_id", "amount", "timestamp"} \subseteq columns)
       THEN /\ response' = [kind |-> "error",
                            error |-> "Bad CSV format! Need: sender_id, receiver_id, amount, timestamp, transaction_id"]
            /\ pc' = "rejected"
       ELSE /\ pc' = "build_graph"
            /\ UNCHANGED response
    /\ UNCHANGED <<columns, df, G, cycles, node_to_ring, high_velocity_set, node_list>>

\* perform_analysis: G = build_graph(df); a KeyError is caught nowhere and
\* ends the request with the framework's internal-server-error response
BuildGraph ==
    /\ pc = "build_graph"
    /\ IF build_graph_raises(df, columns)
       THEN /\ pc' = "crashed"
            /\ response' = [kind |-> "http500"]
            /\ UNCHANGED G
       ELSE /\ G' = build_graph(df)
            /\ pc' = "detect_cycles"
            /\ UNCHANGED response
    /\ UNCHANGED <<columns, df, cycles, node_to_ring, high_velocity_set, node_list>>

\* perform_analysis: cycles, node_to_ring = detect_cycles(G)
DetectCycles ==
    /\ pc = "detect_cycles"
    /\ \E sccs \in SccOrders(G) :
          LET st == detect_cycles(G, sccs)
          IN  /\ cycles' = st.suspicious_cycles
              /\ node_to_ring' = st.node_to_ring
    /\ pc' = "detect_high_velocity"
    /\ UNCHANGED <<columns, df, G, high_velocity_set, node_list, response>>

\* perform_analysis: high_velocity_set = detect_high_velocity(G, df)
DetectHighVelocity ==
    /\ pc = "detect_high_velocity"
    /\ high_velocity_set' = detect_high_velocity(G, df)
    /\ pc' = "score"
    /\ UNCHANGED <<columns, df, G, cycles, node_to_ring, node_list, response>>

\* perform_analysis: the scoring loop
ScoreAccounts ==
    /\ pc = "score"
    /\ node_list' = score_accounts(G, node_to_ring, high_velocity_set)
    /\ pc' = "summarise"
    /\ UNCHANGED <<columns, df, G, cycles, node_to_ring, high_velocity_set, response>>

\* perform_analysis: fraud rings, links, risk summary and the returned dictionary
Summarise ==
    /\ pc = "summarise"
    /\ response' = [kind |-> "ok", result |-> analysis_result(G, cycles, node_list)]
    /\ pc' = "done"
    /\ UNCHANGED <<columns, df, G, cycles, node_to_ring, high_velocity_set, node_list>>

Next ==
    \/ UploadFile
    \/ BuildGraph
    \/ DetectCycles
    \/ DetectHighVelocity
    \/ ScoreAccounts
    \/ Summarise

Spec == Init /\ [][Next]_vars

-----------------------------------------------------------------------------
(* Properties of the response, stated over the uploaded rows *)

Done == pc = "done"

Result == response.result

\* the accounts of the upload, and its transfers as (sender, receiver) pairs
AccountsOfDf == {df[i].sender_id : i \in DOMAIN df} \cup {df[i].receiver_id : i \in DOMAIN df}

Transfers == {<<df[i].sender_id, df[i].receiver_id>> : i \in DOMAIN df}

\* the node record of the result for account a
NodeOf(a) == CHOOSE n \in Range(Result.nodes) : n.id = a

\* the accounts money of the set S can flow to along the transfers
RECURSIVE FlowsTo(_)
FlowsTo(S) ==
    LET more == S \cup {p[2] : p \in {q \in Transfers : q[1] \in S}}
    IN  IF more = S THEN S ELSE FlowsTo(more)

\* the accounts mutually reachable with a
MutualSet(a) == {b \in FlowsTo({a}) : a \in FlowsTo({b})}

HasSelfTransfer(a) == <<a, a>> \in Transfers

\* every timestamp text of the upload is a valid time of day
Parseable == \A i \in DOMAIN df : df[i].timestamp[1] \in 0..23 /\ df[i].timestamp[2] \in 0..59

\* C1: every node of the result has an integer suspicion_score between 0
\* and 100, whatever its ring membership, in-degree and velocity flag.
ScoreWithinBounds ==
    Done => \A i \in DOMAIN Result.nodes : Result.nodes[i].suspicion_score \in 0..100

\* a node that is in a ring, has the capped smurfing bonus and is
\* high-velocity: the three contributions add up to exactly 100
ScoreReachesCap ==
    /\ Done
    /\ \E i \in DOMAIN Result.nodes :
          /\ Result.nodes[i].suspicion_score = 100
          /\ Result.nodes[i].patterns = <<"cycle", "smurfing", "layering">>

\* C2: every member of a ring has that ring's id as its node ring_id, no
\* account is a member of two rings, and no two rings share a ring_id.
RingsPartition ==
    Done =>
        LET rings == Result.fraud_rings
        IN  \A i \in DOMAIN rings :
              /\ \A a \in Range(rings[i].member_accounts) :
                    \E k \in DOMAIN Result.nodes :
                        Result.nodes[k].id = a /\ Result.nodes[k].ring_id = rings[i].ring_id
              /\ \A j \in DOMAIN rings :
                    i # j => /\ rings[i].ring_id # rings[j].ring_id
                             /\ Range(rings[i].member_accounts)
                                  \cap Range(rings[j].member_accounts) = {}

\* a result with two rings or more
SeveralRings == Done /\ Len(Result.fraud_rings) >= 2

\* C3: an account has a ring id iff its strongly connected component has
\* more than one account or it transfers to itself; the members of its ring
\* are then exactly the accounts mutually reachable with it.
RingIffComponent ==
    Done =>
        \A a \in AccountsOfDf :
            LET ringed == NodeOf(a).ring_id # NoRing
                rings == Result.fraud_rings
            IN  /\ Cardinality({k \in DOMAIN Result.nodes : Result.nodes[k].id = a}) = 1
                /\ ringed <=> (Cardinality(MutualSet(a)) > 1 \/ HasSelfTransfer(a))
                /\ ringed =>
                      \E i \in DOMAIN rings :
                          /\ rings[i].ring_id = NodeOf(a).ring_id
                          /\ Range(rings[i].member_accounts) = MutualSet(a)
                          /\ Len(rings[i].member_accounts) = Cardinality(MutualSet(a))

\* a ring of three accounts two of which also send to each other directly,
\* so that the component is larger than its shortest cycle
RingLargerThanCycle ==
    /\ Done
    /\ \E a \in AccountsOfDf : \E b \in AccountsOfDf :
          /\ a # b
          /\ <<a, b>> \in Transfers /\ <<b, a>> \in Transfers
          /\ Cardinality(MutualSet(a)) = 3
          /\ NodeOf(a).ring_id # NoRing

IncomingRows(a) == {i \in DOMAIN df : df[i].receiver_id = a}

OutgoingRows(a) == {i \in DOMAIN df : df[i].sender_id = a}

DistinctSenders(a) == {df[i].sender_id : i \in IncomingRows(a)}

HasLabel(n, label) == label \in Range(n.patterns)

\* what the score of node n holds beyond the cycle and velocity weights
SmurfPart(n) ==
    n.suspicion_score - (IF HasLabel(n, "cycle") THEN 50 ELSE 0)
                      - (IF HasLabel(n, "layering") THEN 20 ELSE 0)

\* the bonus and the label the scorer gives for an in-degree of d
SmurfedAs(n, d) ==
    /\ HasLabel(n, "smurfing") <=> d > 5
    /\ SmurfPart(n) = IF d > 5 THEN Min((d - 5) * 5, 30) ELSE 0

NotAfter(t1, t2) == t1[1] < t2[1] \/ (t1[1] = t2[1] /\ t1[2] <= t2[2])

\* row o leaves within 15 minutes (both ends included) of the arrival of row i
LeavesWithinWindow(i, o) ==
    /\ NotAfter(df[i].timestamp, df[o].timestamp)
    /\ NotAfter(df[o].timestamp, AddMinutes(df[i].timestamp, 15))

\* C5: with parseable timestamps, an account is flagged high-velocity iff
\* some transfer out of it is at or after one of its incoming transfers and
\* at most 15 minutes after it (both bounds inclusive).
VelocityIffWindow ==
    (Done /\ Parseable) =>
        \A a \in AccountsOfDf :
            a \in high_velocity_set <=>
                \E i \in IncomingRows(a) : \E o \in OutgoingRows(a) : LeavesWithinWindow(i, o)

\* an account flagged although each of its outgoing transfers that follows
\* one of its incoming transfers follows it by exactly 15 minutes
FlaggedAtWindowEnd ==
    /\ Done
    /\ Parseable
    /\ \E a \in high_velocity_set :
          \A i \in IncomingRows(a) : \A o \in OutgoingRows(a) :
              NotAfter(df[i].timestamp, df[o].timestamp)
                  => df[o].timestamp = AddMinutes(df[i].timestamp, 15)

\* C6 as claimed: links holds one source/target/amount entry per input
\* transaction, so as many links as transactions, each transaction's own
\* amount on its link.
OneLinkPerTransaction ==
    Done =>
        /\ Len(Result.links) = Len(df)
        /\ \A i \in DOMAIN df :
              \E l \in DOMAIN Result.links :
                  /\ Result.links[l].source = df[i].sender_id
                  /\ Result.links[l].target = df[i].receiver_id
                  /\ Result.links[l].amount = df[i].amount

\* rows i, j, k of the upload are the transfers A -> B at t, B -> C five
\* minutes later and C -> A ten minutes later, 5000 each, and there is no
\* other row
SimpleCycleRows(i, j, k) ==
    /\ Len(df) = 3
    /\ {i, j, k} = 1..3
    /\ Cardinality({df[i].sender_id, df[j].sender_id, df[k].sender_id}) = 3
    /\ df[i].receiver_id = df[j].sender_id
    /\ df[j].receiver_id = df[k].sender_id
    /\ df[k].receiver_id = df[i].sender_id
    /\ df[j].timestamp = AddMinutes(df[i].timestamp, 5)
    /\ df[k].timestamp = AddMinutes(df[i].timestamp, 10)
    /\ \A r \in 1..3 : df[r].amount = 5000

SimpleCycleBatch == \E i \in DOMAIN df : \E j \in DOMAIN df : \E k \in DOMAIN df : SimpleCycleRows(i, j, k)

\* the result has exactly one ring, made of all the accounts of the upload
OneRingOfAll ==
    /\ Len(Result.fraud_rings) = 1
    /\ Range(Result.fraud_rings[1].member_accounts) = AccountsOfDf
    /\ Len(Result.fraud_rings[1].member_accounts) = Cardinality(AccountsOfDf)

\* C7 as claimed: for the simple-cycle batch the result has exactly one
\* ring, whose members are {A, B, C}, and each of the three has
\* suspicion_score 70.
SimpleCycleAllSeventy ==
    (Done /\ Parseable /\ SimpleCycleBatch) =>
        /\ OneRingOfAll
        /\ \A a \in AccountsOfDf : NodeOf(a).suspicion_score = 70

\* C7 as amended: for the simple-cycle batch the result has exactly one
\* ring, whose members are {A, B, C}; B and C have suspicion_score 70 (+50
\* cycle, +20 velocity) and A, whose only outgoing transfer precedes its only
\* incoming one, has suspicion_score 50.
SimpleCycleScores ==
    (Done /\ Parseable) =>
        \A i \in DOMAIN df : \A j \in DOMAIN df : \A k \in DOMAIN df :
            SimpleCycleRows(i, j, k) =>
                /\ OneRingOfAll
                /\ NodeOf(df[i].sender_id).suspicion_score = 50
                /\ NodeOf(df[j].sender_id).suspicion_score = 70
                /\ NodeOf(df[k].sender_id).suspicion_score = 70

\* the analysis of a simple-cycle batch is finished
SimpleCycleAnalysed == Done /\ Parseable /\ SimpleCycleBatch

\* the labels of the members of a ring
LabelsOfRing(ring) ==
    UNION {Range(Result.nodes[k].patterns) :
             k \in {m \in DOMAIN Result.nodes : Result.nodes[m].id \in Range(ring.member_accounts)}}

\* C8: pattern_type of a ring is "hybrid" if "smurfing" and "cycle" both occur
\* among its members' labels, otherwise "layering" if that label occurs,
\* otherwise "cycle"; it is always one of these three.
PatternTypeByLabels ==
    Done =>
        \A i \in DOMAIN Result.fraud_rings :
            LET ring == Result.fraud_rings[i]
                labels == LabelsOfRing(ring)
            IN  /\ ring.pattern_type \in {"hybrid", "layering", "cycle"}
                /\ ring.pattern_type =
                      IF {"smurfing", "cycle"} \subseteq labels THEN "hybrid"
                      ELSE IF "layering" \in labels THEN "layering"
                      ELSE "cycle"

\* a ring classified "hybrid" one of whose members has the label "layering"
HybridWithLayering ==
    /\ Done
    /\ \E i \in DOMAIN Result.fraud_rings :
          /\ Result.fraud_rings[i].pattern_type = "hybrid"
          /\ "layering" \in LabelsOfRing(Result.fraud_rings[i])

\* C9 as claimed: an upload lacking one of the five required columns is
\* rejected with an error result and never reaches build_graph.
MissingColumnRejected ==
    ~(AllColumns \subseteq columns) =>
        /\ pc \in {"received", "rejected"}
        /\ pc = "rejected" => response.kind = "error"

\* C10: with parseable timestamps, every account with a transfer to itself
\* is in a ring and high-velocity (labels "cycle" and "layering", score of
\* at least 70), and no ring of size 1 has pattern_type "cycle".
SelfTransferRingAndVelocity ==
    (Done /\ Parseable) =>
        /\ \A a \in AccountsOfDf :
              HasSelfTransfer(a) =>
                  /\ NodeOf(a).ring_id # NoRing
                  /\ a \in high_velocity_set
                  /\ HasLabel(NodeOf(a), "cycle")
                  /\ HasLabel(NodeOf(a), "layering")
                  /\ NodeOf(a).suspicion_score >= 70
        /\ \A i \in DOMAIN Result.fraud_rings :
              Len(Result.fraud_rings[i].member_accounts) = 1
                  => Result.fraud_rings[i].pattern_type # "cycle"

\* a ring of one account in a batch with parseable timestamps
RingOfOne ==
    /\ Done
    /\ Parseable
    /\ \E i \in DOMAIN Result.fraud_rings : Len(Result.fraud_rings[i].member_accounts) = 1

====
